---- MODULE Spec2Model ----
(***************************************************************************)
(* Model of exome_report.py: ExomeReport.check_hgvs_intronic, get_rows,    *)
(* _filter_line and write.                                                 *)
(*                                                                         *)
(* Python strings whose content is inspected (parsed, matched, compared,  *)
(* written) are sequences of one-character strings; the empty string is   *)
(* <<>>.  Field names are atoms.  POS is an integer (write subtracts 1    *)
(* from it).                                                               *)
(***************************************************************************)
EXTENDS Integers, Sequences, FiniteSets, TLC

\* ------------------------------------------------------------------ bounds
\* Longest record sequence the record source yields.
MaxRecords == 2
\* Largest intron offset (digits after the sign) among the HGVS inputs.
MaxOffset == 22
\* Largest frequency, in hundredths, among the frequency inputs "0.dd".
MaxFreq == 6

\* ------------------------------------------------------- characters, text
Digit == {"0", "1", "2", "3", "4", "5", "6", "7", "8", "9"}

DigitVal(c) ==
    CASE c = "0" -> 0 [] c = "1" -> 1 [] c = "2" -> 2 [] c = "3" -> 3
      [] c = "4" -> 4 [] c = "5" -> 5 [] c = "6" -> 6 [] c = "7" -> 7
      [] c = "8" -> 8 [] c = "9" -> 9

DigitChar(d) ==
    CASE d = 0 -> "0" [] d = 1 -> "1" [] d = 2 -> "2" [] d = 3 -> "3"
      [] d = 4 -> "4" [] d = 5 -> "5" [] d = 6 -> "6" [] d = 7 -> "7"
      [] d = 8 -> "8" [] d = 9 -> "9"

\* Code points of the characters that occur in compared strings.
Ord(c) ==
    CASE c = "\t" -> 9 [] c = "\n" -> 10 [] c = " " -> 32 [] c = "(" -> 40
      [] c = ")" -> 41 [] c = "+" -> 43 [] c = "-" -> 45 [] c = "." -> 46
      [] c = "/" -> 47 [] c \in Digit -> 48 + DigitVal(c) [] c = ">" -> 62
      [] c = "A" -> 65 [] c = "B" -> 66 [] c = "C" -> 67 [] c = "G" -> 71
      [] c = "N" -> 78 [] c = "T" -> 84 [] c = "_" -> 95 [] c = "c" -> 99
      [] c = "g" -> 103 [] c = "m" -> 109 [] c = "s" -> 115 [] c = "x" -> 120
      [] c = "y" -> 121

AllDigits(s) == \A i \in 1..Len(s) : s[i] \in Digit

\* Value of a digit string read in base 10 (leading zeros allowed).
RECURSIVE DigitsValue(_)
DigitsValue(s) ==
    IF s = <<>> THEN 0
    ELSE 10 * DigitsValue(SubSeq(s, 1, Len(s) - 1)) + DigitVal(s[Len(s)])

\* int(str): optional sign, then one or more digits; anything else raises
\* ValueError (ok = FALSE).
ParseInt(s) ==
    LET signed == Len(s) >= 1 /\ s[1] \in {"+", "-"}
        body   == IF signed THEN Tail(s) ELSE s
    IN  IF body # <<>> /\ AllDigits(body)
        THEN [ok |-> TRUE,
              val |-> IF signed /\ s[1] = "-" THEN 0 - DigitsValue(body)
                      ELSE DigitsValue(body)]
        ELSE [ok |-> FALSE, val |-> 0]

\* str(int) / '{}'.format(int).
RECURSIVE NatDigits(_)
NatDigits(n) ==
    IF n < 10 THEN <<DigitChar(n)>>
    ELSE Append(NatDigits(n \div 10), DigitChar(n % 10))

FormatInt(n) == IF n < 0 THEN <<"-">> \o NatDigits(0 - n) ELSE NatDigits(n)

\* --------------------------------------------- check_hgvs_intronic (38-51)
\* Length of the longest run of digits of s that starts at index i.
RECURSIVE DigitRun(_, _)
DigitRun(s, i) ==
    IF i <= Len(s) /\ s[i] \in Digit THEN 1 + DigitRun(s, i + 1) ELSE 0

\* c\.[0-9]+?([\-\+])([0-9]+) tried right after p characters taken by '.*'.
\* The lazy [0-9]+? has to be followed by a sign, so it takes the whole run
\* of digits; the greedy ([0-9]+) takes the whole run after the sign.
MatchTail(s, p) ==
    LET n1 == DigitRun(s, p + 3)
        sg == p + 3 + n1
        n2 == DigitRun(s, sg + 1)
    IN  IF /\ p + 2 <= Len(s)
           /\ s[p + 1] = "c"
           /\ s[p + 2] = "."
           /\ n1 >= 1
           /\ sg <= Len(s)
           /\ s[sg] \in {"-", "+"}
           /\ n2 >= 1
        THEN [matched |-> TRUE, sign |-> s[sg],
              num |-> SubSeq(s, sg + 1, sg + n2)]
        ELSE [matched |-> FALSE, sign |-> "", num |-> <<>>]

\* Number of characters the greedy '.*' takes at first: '.' stops at a newline.
RECURSIVE DotStarMax(_, _)
DotStarMax(s, i) ==
    IF i <= Len(s) /\ s[i] # "\n" THEN 1 + DotStarMax(s, i + 1) ELSE 0

\* re.match(HGVS_INTRON_RE, hgvs): '.*' gives characters back one at a time
\* until the rest of the pattern matches.
RECURSIVE Backtrack(_, _)
Backtrack(s, p) ==
    LET m == MatchTail(s, p)
    IN  IF m.matched THEN m
        ELSE IF p = 0 THEN m
        ELSE Backtrack(s, p - 1)

HGVS_INTRON_RE(s) == Backtrack(s, DotStarMax(s, 1))

\* The thresholds compared with >= in place of >.
criterias_ge == [sign \in {"+", "-"} |-> IF sign = "+" THEN 5 ELSE 19]

criterias == [sign \in {"+", "-"} |-> IF sign = "+" THEN 6 ELSE 20]

check_hgvs_intronic(hgvs) ==
    LET match == HGVS_INTRON_RE(hgvs)
    IN  IF match.matched
        THEN /\ match.sign \in DOMAIN criterias
             /\ DigitsValue(match.num) > criterias[match.sign]
        ELSE FALSE

\* ------------------------------------------------------ _filter_line (142-158)
NA == <<"N", "/", "A">>

RECURSIVE Pow10(_)
Pow10(k) == IF k = 0 THEN 1 ELSE 10 * Pow10(k - 1)

\* Index of the first "." of s, or 0.
RECURSIVE DotIndex(_, _)
DotIndex(s, i) ==
    IF i > Len(s) THEN 0 ELSE IF s[i] = "." THEN i ELSE DotIndex(s, i + 1)

\* float(str) for plain decimal notation: optional sign, digits with an
\* optional point, at least one digit.  The value is num / 10^scale.
\* Anything else raises ValueError (ok = FALSE).
ParseFloat(s) ==
    LET signed == Len(s) >= 1 /\ s[1] \in {"+", "-"}
        neg    == signed /\ s[1] = "-"
        body   == IF signed THEN Tail(s) ELSE s
        d      == DotIndex(body, 1)
        ip     == IF d = 0 THEN body ELSE SubSeq(body, 1, d - 1)
        fp     == IF d = 0 THEN <<>> ELSE SubSeq(body, d + 1, Len(body))
        mag    == DigitsValue(ip \o fp)
    IN  IF AllDigits(ip) /\ AllDigits(fp) /\ (ip # <<>> \/ fp # <<>>)
        THEN [ok |-> TRUE, num |-> IF neg THEN 0 - mag ELSE mag,
              scale |-> Len(fp)]
        ELSE [ok |-> FALSE, num |-> 0, scale |-> 0]

\* Thresholds are in hundredths: 0.05, 0.01, 0.01.
FILTER_CRITERIAS ==
    << <<"inDB_alleleFreq", 5>>, <<"ExAC_TOT", 1>>, <<"1000g", 1>> >>

\* Value of key in an OrderedDict (a sequence of <<key, value>> pairs with
\* distinct keys).
RowGet(row, key) ==
    LET i == CHOOSE j \in 1..Len(row) : row[j][1] = key IN row[i][2]

\* The value compared with >= in place of >.
CriterionCheck_ge(val, threshold) ==
    IF val = NA THEN FALSE
    ELSE LET f == ParseFloat(val)
         IN  IF ~f.ok THEN FALSE
             ELSE f.num * 100 >= threshold * Pow10(f.scale)

\* One pass of the loop body: the entry criteria_check[name] gets.
CriterionCheck(val, threshold) ==
    IF val = NA THEN FALSE
    ELSE LET f == ParseFloat(val)
         IN  IF ~f.ok THEN FALSE
             ELSE f.num * 100 > threshold * Pow10(f.scale)

RECURSIVE FilterLoop(_, _, _)
FilterLoop(line, i, criteria_check) ==
    IF i > Len(FILTER_CRITERIAS) THEN criteria_check
    ELSE LET name      == FILTER_CRITERIAS[i][1]
             threshold == FILTER_CRITERIAS[i][2]
             val       == RowGet(line, <<name>>)
         IN  FilterLoop(line, i + 1,
                 [n \in DOMAIN criteria_check \cup {name} |->
                     IF n = name THEN CriterionCheck(val, threshold)
                     ELSE criteria_check[n]])

_filter_line(line) ==
    LET criteria_check == FilterLoop(line, 1, [n \in {} |-> FALSE])
    IN  \E n \in DOMAIN criteria_check : criteria_check[n]

\* ---------------------------------------------------------- get_rows (53-140)
empty_fields ==
    {"IGV", "ACMG kriterier", "Klasse", "Resultatvurdering kommentar",
     "Kontroll kommentar", "Variantvurdering"}

fields ==
    <<"CHR", "POS", "REF", "ALT", "Gene", "Inheritance", "HGVSc", "HGVSp",
      "Consequence", "IGV", "ACMG kriterier", "Klasse",
      "Resultatvurdering kommentar", "Kontroll kommentar", "Variantvurdering",
      "Genotype", "ExAC_URL", "HGMD_URL", "AlamutColumn", "inDB_alleleFreq",
      "inDB_noMutInd", "inDB_indications", "sanger_verify", "VCF_FILTER",
      "VCF_QUAL", "VCF_AD_AlleleDepth", "VCF_DP_depth", "ExAC_TOT", "ExAC_NFE",
      "ExAC_FIN", "ExAC_AFR", "ExAC_AMR", "ExAC_EAS", "ExAC_SAS", "ExAC_OTH",
      "1000g", "inDB_genotypeFreq", "inDB_noTotal", "inDB_filter", "dbSNP",
      "repeatMasker">>

\* rename_fields as get_rows initialises it: display names are sequences of
\* text pieces, <<field>> when the field is not renamed.
rename_fields_init == [f \in {"inDB_noMutInd"} |-> <<"inDB_noMutInd">>]

\* 'inDB_noMutInd ({})'.format(inDB_noTotal)
RenameLabel(n) == <<"inDB_noMutInd", " ", "(">> \o FormatInt(n) \o <<")">>

\* rename_fields.get(field, field)
FieldName(rename, field) ==
    IF field \in DOMAIN rename THEN rename[field] ELSE <<field>>

\* entry.get('inDB_noTotal', 'N/A')
EntryGet(entry, field, default) ==
    IF field \in DOMAIN entry THEN entry[field] ELSE default

\* entry.get(field, '') in place of entry[field].
ProjectField_get(entry, rename, field) ==
    LET fieldname == FieldName(rename, field)
    IN  IF field = "Klasse"
        THEN IF "HGVSc" \notin DOMAIN entry
             THEN [err |-> TRUE, pair |-> <<>>]
             ELSE IF check_hgvs_intronic(entry["HGVSc"])
                  THEN [err |-> FALSE, pair |-> <<fieldname, <<"u">>>>]
                  ELSE [err |-> FALSE, pair |-> <<fieldname, <<>>>>]
        ELSE IF field \in empty_fields
        THEN [err |-> FALSE, pair |-> <<fieldname, <<>>>>]
        ELSE [err |-> FALSE, pair |-> <<fieldname, EntryGet(entry, field, <<>>)>>]

\* Body of the loop over fields (lines 126-139) for one field: the pair that
\* is appended to report_row, or err when entry[...] raises KeyError.
ProjectField(entry, rename, field) ==
    LET fieldname == FieldName(rename, field)
    IN  IF field = "Klasse"
        THEN IF "HGVSc" \notin DOMAIN entry
             THEN [err |-> TRUE, pair |-> <<>>]
             ELSE IF check_hgvs_intronic(entry["HGVSc"])
                  THEN [err |-> FALSE, pair |-> <<fieldname, <<"u">>>>]
                  ELSE [err |-> FALSE, pair |-> <<fieldname, <<>>>>]
        ELSE IF field \in empty_fields
        THEN [err |-> FALSE, pair |-> <<fieldname, <<>>>>]
        ELSE IF field \notin DOMAIN entry
        THEN [err |-> TRUE, pair |-> <<>>]
        ELSE [err |-> FALSE, pair |-> <<fieldname, entry[field]>>]

\* The loop over fields for one entry, appending to report_row (acc) until
\* the end of the list or the first KeyError.
ProjectLoop(entry, rename, i, acc) ==
    LET bad == {j \in i..Len(fields) : ProjectField(entry, rename, fields[j]).err}
        end == IF bad = {} THEN Len(fields)
               ELSE (CHOOSE j \in bad : \A k \in bad : j <= k) - 1
    IN  [err |-> bad # {},
         report_row |->
             acc \o [j \in 1..(end - i + 1) |->
                        ProjectField(entry, rename, fields[i + j - 1]).pair]]

Indexed(s) == [j \in 1..Len(s) |-> <<j, s[j]>>]

\* A key seen before keeps its first value.
OrderedDict_first(pairs) ==
    LET IsFirst(e) == \A j \in 1..(e[1] - 1) : pairs[j][1] # e[2][1]
        firsts == SelectSeq(Indexed(pairs), IsFirst)
    IN  [k \in 1..Len(firsts) |-> firsts[k][2]]

\* OrderedDict(report_row): pairs are inserted in list order; a key seen
\* before keeps its position and takes the later value.
OrderedDict(pairs) ==
    LET IsFirst(e) == \A j \in 1..(e[1] - 1) : pairs[j][1] # e[2][1]
        firsts == SelectSeq(Indexed(pairs), IsFirst)
        Last(key) == CHOOSE j \in 1..Len(pairs) :
                        /\ pairs[j][1] = key
                        /\ \A k \in (j + 1)..Len(pairs) : pairs[k][1] # key
    IN  [k \in 1..Len(firsts) |->
            <<firsts[k][2][1], pairs[Last(firsts[k][2][1])][2]>>]

\* ------------------------------------------------------ write: sort (164-166)
\* str < str: by code point, a proper prefix first.
RECURSIVE StrLess(_, _)
StrLess(a, b) ==
    IF b = <<>> THEN FALSE
    ELSE IF a = <<>> THEN TRUE
    ELSE IF a[1] # b[1] THEN Ord(a[1]) < Ord(b[1])
    ELSE StrLess(Tail(a), Tail(b))

\* The key without Consequence.
SortKey_gene(x) ==
    <<RowGet(x, <<"Gene">>), RowGet(x, <<"ExAC_TOT">>)>>

\* key=lambda x: (x['Gene'], x['Consequence'], x['ExAC_TOT'])
SortKey(x) ==
    <<RowGet(x, <<"Gene">>), RowGet(x, <<"Consequence">>),
      RowGet(x, <<"ExAC_TOT">>)>>

\* tuple < tuple of strings.
RECURSIVE KeyLess(_, _)
KeyLess(a, b) ==
    IF b = <<>> THEN FALSE
    ELSE IF a = <<>> THEN TRUE
    ELSE IF a[1] # b[1] THEN StrLess(a[1], b[1])
    ELSE KeyLess(Tail(a), Tail(b))

\* Insert x behind every element whose key is not greater (stable).
RECURSIVE InsertSorted(_, _)
InsertSorted(l, x) ==
    IF l = <<>> THEN <<x>>
    ELSE IF KeyLess(SortKey(x), SortKey(l[Len(l)]))
    THEN Append(InsertSorted(SubSeq(l, 1, Len(l) - 1), x), l[Len(l)])
    ELSE Append(l, x)

\* sorted(iterable, key=...): a stable sort.
RECURSIVE sorted(_)
sorted(l) ==
    IF l = <<>> THEN <<>>
    ELSE InsertSorted(sorted(SubSeq(l, 1, Len(l) - 1)), l[Len(l)])

\* The comprehension without its 'not'.
RECURSIVE FilteredLines_common(_)
FilteredLines_common(l) ==
    IF l = <<>> THEN <<>>
    ELSE IF _filter_line(l[1])
    THEN <<l[1]>> \o FilteredLines_common(Tail(l))
    ELSE FilteredLines_common(Tail(l))

\* filtered_lines (line 168)
RECURSIVE FilteredLines(_)
FilteredLines(l) ==
    IF l = <<>> THEN <<>>
    ELSE IF ~_filter_line(l[1])
    THEN <<l[1]>> \o FilteredLines(Tail(l))
    ELSE FilteredLines(Tail(l))

\* ------------------------------------------------- write: emitters (191-215)
\* str(f) of a row value: POS is an integer, every other value is text.
Str(key, v) == IF key = <<"POS">> THEN FormatInt(v) ELSE v

\* sep.join(parts), parts a sequence of texts.
RECURSIVE Join(_, _)
Join(parts, sep) ==
    IF parts = <<>> THEN <<>>
    ELSE IF Len(parts) = 1 THEN parts[1]
    ELSE LET h == Len(parts) \div 2
         IN  Join(SubSeq(parts, 1, h), sep) \o sep
               \o Join(SubSeq(parts, h + 1, Len(parts)), sep)

Keys(row) == [j \in 1..Len(row) |-> row[j][1]]

Values(row) == [j \in 1..Len(row) |-> Str(row[j][1], row[j][2])]

TAB == <<"\t">>

NL == <<"\n">>

\* One element of igv_data (lines 204-211).
IgvEntry(line) ==
    <<RowGet(line, <<"CHR">>), RowGet(line, <<"POS">>) - 1,
      RowGet(line, <<"POS">>), RowGet(line, <<"Gene">>)>>

\* '\t'.join(str(l) for l in line) + '\n' for an element of igv_data.
IgvLine(e) ==
    Join(<<e[1], FormatInt(e[2]), FormatInt(e[3]), e[4]>>, TAB) \o NL

\* ------------------------------------------------------------------ inputs
FieldSet == {fields[i] : i \in 1..Len(fields)}

FieldIndex(f) == CHOOSE k \in 1..Len(fields) : fields[k] = f

\* A record of the record source: every declared field present.
BaseRecord ==
    [f \in FieldSet |->
        CASE f = "POS" -> 5
          [] f = "CHR" -> <<"1">>
          [] f = "Gene" -> <<"A">>
          [] f = "Consequence" -> <<"m">>
          [] f = "HGVSc" -> <<"c", ".", "1", "+", "6">>
          [] f \in {"inDB_alleleFreq", "ExAC_TOT", "1000g", "inDB_noTotal"} -> NA
          [] OTHER -> <<"x">>]

Without(entry, f) == [g \in DOMAIN entry \ {f} |-> entry[g]]

\* The records the record source may yield: they differ in the sort key, in
\* the frequencies, in HGVSc, in the raw value of always-blank fields, in
\* inDB_noTotal, and in the fields they lack.
RecordPool ==
    { BaseRecord,
      [BaseRecord EXCEPT !["POS"] = 6, !["Genotype"] = <<"y">>,
                         !["HGVSc"] = <<"c", ".", "1", "+", "7">>,
                         !["Klasse"] = <<"3">>, !["IGV"] = <<"y">>],
      [BaseRecord EXCEPT !["Gene"] = <<"B">>, !["POS"] = 0,
                         !["ExAC_TOT"] = <<"0", ".", "2">>,
                         !["inDB_noTotal"] = <<"1", "2">>],
      [BaseRecord EXCEPT !["Consequence"] = <<"s">>,
                         !["ExAC_TOT"] = <<"0", ".", "0", "1">>,
                         !["HGVSc"] = <<"c", ".", "1", "-", "2", "1">>,
                         !["inDB_noTotal"] = <<"0", "7">>],
      [BaseRecord EXCEPT !["ExAC_TOT"] = <<"0", ".", "2">>,
                         !["CHR"] = <<"2">>],
      [BaseRecord EXCEPT !["inDB_alleleFreq"] = <<"0", ".", "0", "6">>,
                         !["HGVSc"] = <<>>,
                         !["inDB_noTotal"] = <<"x">>],
      [BaseRecord EXCEPT !["inDB_alleleFreq"] = <<"0", ".", "0", "5">>,
                         !["Klasse"] = <<"u">>],
      [BaseRecord EXCEPT !["1000g"] = <<"0", ".", "0", "2">>,
                         !["Gene"] = <<"A", "B">>],
      Without(BaseRecord, "IGV"),
      Without(BaseRecord, "Genotype"),
      Without([BaseRecord EXCEPT !["Klasse"] = <<"3">>], "inDB_noTotal"),
      Without(BaseRecord, "HGVSc") }

SeqsUpTo(S, n) == UNION {[1..k -> S] : k \in 0..n}

\* HGVSc strings: an optional lead, then "c." digits sign digits with each
\* part possibly absent or malformed, then an optional rest.
HgvsLead == {<<>>, <<"x">>, <<"c", ".", "1", "+", "7">>,
             <<"c", ".", "1", "-", "3">>}

HgvsHead == {<<"c", ".">>, <<"c">>, <<"g", ".">>, <<>>}

HgvsPos == {<<"1">>, <<"1", "2">>, <<>>}

HgvsSign == {<<"+">>, <<"-">>, <<"_">>, <<>>}

HgvsOffset ==
    {FormatInt(k) : k \in 0..MaxOffset}
      \cup {<<>>, <<"0", "7">>, <<"0", "2", "1">>}

HgvsRest == {<<>>, <<"A", ">", "G">>, <<"c", ".", "1", "+">>}

HgvsInputs ==
    {l \o h \o p \o s \o o \o r :
        l \in HgvsLead, h \in HgvsHead, p \in HgvsPos, s \in HgvsSign,
        o \in HgvsOffset, r \in HgvsRest}

\* "0.dd" for dd hundredths.
FreqText(k) == <<"0", ".", DigitChar(k \div 10), DigitChar(k % 10)>>

\* Values of a frequency field: the sentinel, text that is no number, and
\* numbers around the thresholds in several notations.
FreqValues ==
    {FreqText(k) : k \in 0..MaxFreq}
      \cup {NA, <<>>, <<"x">>, <<".">>, <<"0", ".", "0", "x">>,
            <<"-", "1">>, <<"1">>, <<".", "0", "5">>, <<"+", ".", "5">>,
            <<"0", ".", "0", "5", "1">>, <<"0", ".", "0", "0", "9">>}

\* The row get_rows yields for a single record.
RowOf(entry) ==
    OrderedDict(ProjectLoop(entry, rename_fields_init, 1, <<>>).report_row)

FilterInputs ==
    {RowOf([BaseRecord EXCEPT !["inDB_alleleFreq"] = a, !["ExAC_TOT"] = e,
                              !["1000g"] = g]) :
        a \in FreqValues, e \in FreqValues, g \in FreqValues}

\* ------------------------------------------------------------------- state
VARIABLES
    records,         \* what reader.get_data() yields, in order
    excel, tsv, igv, \* whether write was given each output target
    pc,              \* position of write
    reads,           \* entries fetched from the record source so far
    scan_i,          \* get_rows: next entry of the first loop (115-122)
    rename_fields,   \* get_rows: the rename table
    report_row,      \* get_rows: the pair list (124)
    proj_i,          \* get_rows: next entry of the second loop (125-140)
    rows,            \* rows yielded so far (collected by sorted)
    lines,           \* write: lines (164)
    filtered_lines,  \* write: filtered_lines (168)
    excel_saved,     \* whether excel_writer.save() ran (189)
    tsv_fd,          \* self.tsv_fd: "None", "open" or "closed"
    tsv_out,         \* content of the tsv file
    tsv_i,           \* next line of the loop at 195
    igv_data,        \* write: igv_data (202)
    igv_fd,          \* igv_fd: "None", "open" or "closed"
    igv_out,         \* content of the igv file
    igv_i,           \* next line of the loop at 214
    error,           \* the exception write ended with, or "none"
    hgvs,            \* argument of a call of check_hgvs_intronic
    hgvs_ret,        \* <<>> before the call returns, then <<result>>
    fl_line,         \* argument of a call of _filter_line
    fl_ret           \* <<>> before the call returns, then <<result>>

vars ==
    <<records, excel, tsv, igv, pc, reads, scan_i, rename_fields, report_row,
      proj_i, rows, lines, filtered_lines, excel_saved, tsv_fd, tsv_out,
      tsv_i, igv_data, igv_fd, igv_out, igv_i, error, hgvs, hgvs_ret,
      fl_line, fl_ret>>

writeVars ==
    <<records, excel, tsv, igv, pc, reads, scan_i, rename_fields, report_row,
      proj_i, rows, lines, filtered_lines, excel_saved, tsv_fd, tsv_out,
      tsv_i, igv_data, igv_fd, igv_out, igv_i, error>>

\* State after ExomeReport.__init__ (32-36), before any call.
Constructed ==
    /\ reads = 0
    /\ scan_i = 1
    /\ rename_fields = rename_fields_init
    /\ report_row = <<>>
    /\ proj_i = 1
    /\ rows = <<>>
    /\ lines = <<>>
    /\ filtered_lines = <<>>
    /\ excel_saved = FALSE
    /\ tsv_fd = "None"
    /\ tsv_out = <<>>
    /\ tsv_i = 1
    /\ igv_data = <<>>
    /\ igv_fd = "None"
    /\ igv_out = <<>>
    /\ igv_i = 1
    /\ error = "none"

\* A call of write(excel, tsv, igv) on a record source.
Init ==
    /\ records \in SeqsUpTo(RecordPool, MaxRecords)
    /\ excel \in BOOLEAN
    /\ tsv \in BOOLEAN
    /\ igv \in BOOLEAN
    /\ pc = "write"
    /\ Constructed
    /\ hgvs = <<>>
    /\ hgvs_ret = <<>>
    /\ fl_line = <<>>
    /\ fl_ret = <<>>

\* ------------------------------------------------------------ write (160-215)
\* The check of the targets left out.
NoTarget_unchecked == FALSE

\* not any(a for a in [excel, tsv, igv])
NoTarget == ~(excel \/ tsv \/ igv)

\* Lines 161-162; otherwise sorted() starts to draw from get_rows().
WriteCheckTargets ==
    /\ pc = "write"
    /\ IF NoTarget
       THEN /\ error' = "RuntimeError"
            /\ pc' = "failed"
       ELSE /\ pc' = "prepass"
            /\ UNCHANGED error
    /\ UNCHANGED <<records, excel, tsv, igv, reads, scan_i, rename_fields,
                   report_row, proj_i, rows, lines, filtered_lines,
                   excel_saved, tsv_fd, tsv_out, tsv_i, igv_data, igv_fd,
                   igv_out, igv_i, hgvs, hgvs_ret, fl_line, fl_ret>>

\* The loop body without its break.
PrepassEntry_nobreak(entry, rename) ==
    LET p == ParseInt(EntryGet(entry, "inDB_noTotal", NA))
    IN  IF p.ok
        THEN [stop |-> FALSE,
              rename |-> [rename EXCEPT !["inDB_noMutInd"] = RenameLabel(p.val)]]
        ELSE [stop |-> FALSE, rename |-> rename]

\* Body of the first loop (116-122): whether it breaks, and rename_fields.
PrepassEntry(entry, rename) ==
    LET p == ParseInt(EntryGet(entry, "inDB_noTotal", NA))
    IN  IF p.ok
        THEN [stop |-> TRUE,
              rename |-> [rename EXCEPT !["inDB_noMutInd"] = RenameLabel(p.val)]]
        ELSE [stop |-> FALSE, rename |-> rename]

\* One iteration of the first loop of get_rows, or its end (115-124).
PrepassStep ==
    /\ pc = "prepass"
    /\ IF scan_i > Len(records)
       THEN /\ pc' = "project"
            /\ UNCHANGED <<reads, scan_i, rename_fields>>
       ELSE LET r == PrepassEntry(records[scan_i], rename_fields)
            IN  /\ reads' = reads + 1
                /\ rename_fields' = r.rename
                /\ scan_i' = scan_i + 1
                /\ pc' = IF r.stop THEN "project" ELSE "prepass"
    /\ UNCHANGED <<records, excel, tsv, igv, report_row, proj_i, rows, lines,
                   filtered_lines, excel_saved, tsv_fd, tsv_out, tsv_i,
                   igv_data, igv_fd, igv_out, igv_i, error, hgvs, hgvs_ret,
                   fl_line, fl_ret>>

\* One iteration of the second loop of get_rows (125-140): the row is
\* yielded to sorted(), or entry[...] raises KeyError out of write.
ProjectEntry ==
    /\ pc = "project"
    /\ proj_i <= Len(records)
    /\ LET r == ProjectLoop(records[proj_i], rename_fields, 1, report_row)
       IN  /\ report_row' = r.report_row
           /\ IF r.err
              THEN /\ error' = "KeyError"
                   /\ pc' = "failed"
                   /\ UNCHANGED rows
              ELSE /\ rows' = Append(rows, OrderedDict(r.report_row))
                   /\ UNCHANGED <<error, pc>>
    /\ reads' = reads + 1
    /\ proj_i' = proj_i + 1
    /\ UNCHANGED <<records, excel, tsv, igv, scan_i, rename_fields, lines,
                   filtered_lines, excel_saved, tsv_fd, tsv_out, tsv_i,
                   igv_data, igv_fd, igv_out, igv_i, hgvs, hgvs_ret, fl_line,
                   fl_ret>>

\* get_rows is exhausted and sorted() returns (164-166).
SortLines ==
    /\ pc = "project"
    /\ proj_i > Len(records)
    /\ lines' = sorted(rows)
    /\ pc' = "filter"
    /\ UNCHANGED <<records, excel, tsv, igv, reads, scan_i, rename_fields,
                   report_row, proj_i, rows, filtered_lines, excel_saved,
                   tsv_fd, tsv_out, tsv_i, igv_data, igv_fd, igv_out, igv_i,
                   error, hgvs, hgvs_ret, fl_line, fl_ret>>

\* Line 168.
FilterLines ==
    /\ pc = "filter"
    /\ filtered_lines' = FilteredLines(lines)
    /\ pc' = "excel"
    /\ UNCHANGED <<records, excel, tsv, igv, reads, scan_i, rename_fields,
                   report_row, proj_i, rows, lines, excel_saved, tsv_fd,
                   tsv_out, tsv_i, igv_data, igv_fd, igv_out, igv_i, error,
                   hgvs, hgvs_ret, fl_line, fl_ret>>

\* Lines 170-189: the spreadsheet writer is handed lines and filtered_lines.
WriteExcel ==
    /\ pc = "excel"
    /\ excel_saved' = excel
    /\ pc' = "tsv"
    /\ UNCHANGED <<records, excel, tsv, igv, reads, scan_i, rename_fields,
                   report_row, proj_i, rows, lines, filtered_lines, tsv_fd,
                   tsv_out, tsv_i, igv_data, igv_fd, igv_out, igv_i, error,
                   hgvs, hgvs_ret, fl_line, fl_ret>>

\* Lines 191-192.
TsvOpen ==
    /\ pc = "tsv"
    /\ IF tsv
       THEN /\ tsv_fd' = "open"
            /\ pc' = "tsv_header"
       ELSE /\ pc' = "igv"
            /\ UNCHANGED tsv_fd
    /\ UNCHANGED <<records, excel, tsv, igv, reads, scan_i, rename_fields,
                   report_row, proj_i, rows, lines, filtered_lines,
                   excel_saved, tsv_out, tsv_i, igv_data, igv_fd, igv_out,
                   igv_i, error, hgvs, hgvs_ret, fl_line, fl_ret>>

\* Lines 193-194: lines[0] raises IndexError on an empty list.
TsvHeader ==
    /\ pc = "tsv_header"
    /\ IF lines = <<>>
       THEN /\ error' = "IndexError"
            /\ pc' = "failed"
            /\ UNCHANGED tsv_out
       ELSE /\ tsv_out' = tsv_out \o Join(Keys(lines[1]), TAB) \o NL
            /\ pc' = "tsv_lines"
            /\ UNCHANGED error
    /\ UNCHANGED <<records, excel, tsv, igv, reads, scan_i, rename_fields,
                   report_row, proj_i, rows, lines, filtered_lines,
                   excel_saved, tsv_fd, tsv_i, igv_data, igv_fd, igv_out,
                   igv_i, hgvs, hgvs_ret, fl_line, fl_ret>>

\* One iteration of the loop at 195-198 (self.tsv_fd is a file object: true).
TsvLine ==
    /\ pc = "tsv_lines"
    /\ tsv_i <= Len(lines)
    /\ tsv_out' = tsv_out \o Join(Values(lines[tsv_i]), TAB) \o NL
    /\ tsv_i' = tsv_i + 1
    /\ UNCHANGED <<records, excel, tsv, igv, pc, reads, scan_i, rename_fields,
                   report_row, proj_i, rows, lines, filtered_lines,
                   excel_saved, tsv_fd, igv_data, igv_fd, igv_out, igv_i,
                   error, hgvs, hgvs_ret, fl_line, fl_ret>>

\* Line 199.
TsvClose ==
    /\ pc = "tsv_lines"
    /\ tsv_i > Len(lines)
    /\ tsv_fd' = "closed"
    /\ pc' = "igv"
    /\ UNCHANGED <<records, excel, tsv, igv, reads, scan_i, rename_fields,
                   report_row, proj_i, rows, lines, filtered_lines,
                   excel_saved, tsv_out, tsv_i, igv_data, igv_fd, igv_out,
                   igv_i, error, hgvs, hgvs_ret, fl_line, fl_ret>>

\* Lines 201-211.
IgvBuild ==
    /\ pc = "igv"
    /\ IF igv
       THEN /\ igv_data' = [j \in 1..Len(filtered_lines) |->
                               IgvEntry(filtered_lines[j])]
            /\ pc' = "igv_open"
       ELSE /\ pc' = "done"
            /\ UNCHANGED igv_data
    /\ UNCHANGED <<records, excel, tsv, igv, reads, scan_i, rename_fields,
                   report_row, proj_i, rows, lines, filtered_lines,
                   excel_saved, tsv_fd, tsv_out, tsv_i, igv_fd, igv_out,
                   igv_i, error, hgvs, hgvs_ret, fl_line, fl_ret>>

\* Line 213: entering the with block.
IgvOpen ==
    /\ pc = "igv_open"
    /\ igv_fd' = "open"
    /\ pc' = "igv_lines"
    /\ UNCHANGED <<records, excel, tsv, igv, reads, scan_i, rename_fields,
                   report_row, proj_i, rows, lines, filtered_lines,
                   excel_saved, tsv_fd, tsv_out, tsv_i, igv_data, igv_out,
                   igv_i, error, hgvs, hgvs_ret, fl_line, fl_ret>>

\* One iteration of the loop at 214-215.
IgvWriteLine ==
    /\ pc = "igv_lines"
    /\ igv_i <= Len(igv_data)
    /\ igv_out' = igv_out \o IgvLine(igv_data[igv_i])
    /\ igv_i' = igv_i + 1
    /\ UNCHANGED <<records, excel, tsv, igv, pc, reads, scan_i, rename_fields,
                   report_row, proj_i, rows, lines, filtered_lines,
                   excel_saved, tsv_fd, tsv_out, tsv_i, igv_data, igv_fd,
                   error, hgvs, hgvs_ret, fl_line, fl_ret>>

\* Leaving the with block closes igv_fd.
IgvClose ==
    /\ pc = "igv_lines"
    /\ igv_i > Len(igv_data)
    /\ igv_fd' = "closed"
    /\ pc' = "done"
    /\ UNCHANGED <<records, excel, tsv, igv, reads, scan_i, rename_fields,
                   report_row, proj_i, rows, lines, filtered_lines,
                   excel_saved, tsv_fd, tsv_out, tsv_i, igv_data, igv_out,
                   igv_i, error, hgvs, hgvs_ret, fl_line, fl_ret>>

Next ==
    \/ WriteCheckTargets
    \/ PrepassStep
    \/ ProjectEntry
    \/ SortLines
    \/ FilterLines
    \/ WriteExcel
    \/ TsvOpen
    \/ TsvHeader
    \/ TsvLine
    \/ TsvClose
    \/ IgvBuild
    \/ IgvOpen
    \/ IgvWriteLine
    \/ IgvClose

Spec == Init /\ [][Next]_vars

\* ------------------------------------- calls of check_hgvs_intronic alone
InitHgvs ==
    /\ hgvs \in HgvsInputs
    /\ hgvs_ret = <<>>
    /\ records = <<>>
    /\ excel = FALSE
    /\ tsv = FALSE
    /\ igv = FALSE
    /\ pc = "idle"
    /\ Constructed
    /\ fl_line = <<>>
    /\ fl_ret = <<>>

CallCheckHgvs ==
    /\ hgvs_ret = <<>>
    /\ pc = "idle"
    /\ hgvs_ret' = <<check_hgvs_intronic(hgvs)>>
    /\ UNCHANGED <<writeVars, hgvs, fl_line, fl_ret>>

NextHgvs == CallCheckHgvs

SpecHgvs == InitHgvs /\ [][NextHgvs]_vars

\* --------------------------------------------- calls of _filter_line alone
InitFilter ==
    /\ fl_line \in FilterInputs
    /\ fl_ret = <<>>
    /\ records = <<>>
    /\ excel = FALSE
    /\ tsv = FALSE
    /\ igv = FALSE
    /\ pc = "idle"
    /\ Constructed
    /\ hgvs = <<>>
    /\ hgvs_ret = <<>>

CallFilterLine ==
    /\ fl_ret = <<>>
    /\ pc = "idle"
    /\ fl_line # <<>>
    /\ fl_ret' = <<_filter_line(fl_line)>>
    /\ UNCHANGED <<writeVars, hgvs, hgvs_ret, fl_line>>

NextFilter == CallFilterLine

SpecFilter == InitFilter /\ [][NextFilter]_vars

\* ================================================================== claims
\* Pieces of s between the occurrences of the token sep (str.split).
Split(s, sep) ==
    LET IsSep(i) == s[i] = sep
        P == SelectSeq([i \in 1..Len(s) |-> i], IsSep)
    IN  [k \in 1..(Len(P) + 1) |->
            SubSeq(s, IF k = 1 THEN 1 ELSE P[k - 1] + 1,
                      IF k = Len(P) + 1 THEN Len(s) ELSE P[k] - 1)]

\* ----------------------------------------------------------------------- C1
\* The text val denotes a number greater than hundredths / 100.
Exceeds(val, hundredths) ==
    /\ val # NA
    /\ ParseFloat(val).ok
    /\ ParseFloat(val).num * 100 > hundredths * Pow10(ParseFloat(val).scale)

\* C1: a call of _filter_line always returns a truth value (it never
\* raises), and it returns true iff the row's inDB_alleleFreq denotes a
\* number above 0.05, or its ExAC_TOT one above 0.01, or its 1000g one above
\* 0.01; 'N/A' and text that is no number make a criterion false.
C1_FilterLine ==
    fl_ret # <<>> =>
        /\ fl_ret[1] \in BOOLEAN
        /\ fl_ret[1] <=>
             \/ Exceeds(RowGet(fl_line, <<"inDB_alleleFreq">>), 5)
             \/ Exceeds(RowGet(fl_line, <<"ExAC_TOT">>), 1)
             \/ Exceeds(RowGet(fl_line, <<"1000g">>), 1)

\* A row whose first value is the sentinel and whose second is no number is
\* found common by its third value alone.
C1_Witness ==
    /\ fl_ret = <<TRUE>>
    /\ RowGet(fl_line, <<"inDB_alleleFreq">>) = NA
    /\ RowGet(fl_line, <<"ExAC_TOT">>) = <<"0", ".", "0", "x">>
    /\ RowGet(fl_line, <<"1000g">>) = <<"0", ".", "0", "2">>

\* ----------------------------------------------------------------------- C2
\* The places of s where "c." digits sign digits stands: <<p, g, e>> with
\* "c." at p+1, the sign at g and the last digit of the offset at e.
Notations(s) ==
    {t \in (0..Len(s)) \X (1..Len(s)) \X (1..Len(s)) :
        /\ t[1] + 3 < t[2]
        /\ t[2] < t[3]
        /\ s[t[1] + 1] = "c"
        /\ s[t[1] + 2] = "."
        /\ \A i \in (t[1] + 3)..(t[2] - 1) : s[i] \in Digit
        /\ s[t[2]] \in {"+", "-"}
        /\ \A i \in (t[2] + 1)..t[3] : s[i] \in Digit
        /\ (t[3] = Len(s) \/ s[t[3] + 1] \notin Digit)}

\* C2: check_hgvs_intronic returns true iff the string holds the notation
\* c.<digits><sign><digits> and, in its last occurrence, the sign is '+' and
\* the offset is above 6 or the sign is '-' and the offset is above 20; a
\* string without the notation gives false.
C2_HgvsIntronic ==
    hgvs_ret # <<>> =>
        (hgvs_ret[1] <=>
            \E t \in Notations(hgvs) :
                /\ \A u \in Notations(hgvs) : u[1] <= t[1]
                /\ LET offset == DigitsValue(SubSeq(hgvs, t[2] + 1, t[3]))
                   IN  \/ hgvs[t[2]] = "+" /\ offset > 6
                       \/ hgvs[t[2]] = "-" /\ offset > 20)

\* "c.12-21" is deep intronic.
C2_Witness ==
    /\ hgvs = <<"c", ".", "1", "2", "-", "2", "1">>
    /\ hgvs_ret = <<TRUE>>

\* ----------------------------------------------------------------------- C3
OtherBlankFields ==
    {"IGV", "ACMG kriterier", "Resultatvurdering kommentar",
     "Kontroll kommentar", "Variantvurdering"}

\* C3: the i-th row yielded is the projection of the i-th record alone: its
\* keys are the field list in order with the rename applied, Klasse is 'u'
\* iff HGVSc of that record is deep intronic and '' otherwise, the other
\* always-blank fields are '', and every other field holds that record's
\* raw value.
C3_RowIsProjection ==
    \A i \in 1..Len(rows) :
        /\ Len(rows[i]) = Len(fields)
        /\ \A k \in 1..Len(fields) :
            LET f == fields[k]
                key == rows[i][k][1]
                val == rows[i][k][2]
            IN  /\ key = IF f = "inDB_noMutInd"
                         THEN rename_fields["inDB_noMutInd"] ELSE <<f>>
                /\ IF f = "Klasse"
                   THEN val = IF check_hgvs_intronic(records[i]["HGVSc"])
                              THEN <<"u">> ELSE <<>>
                   ELSE IF f \in OtherBlankFields THEN val = <<>>
                   ELSE val = records[i][f]

\* Two different records were projected through the shared pair list, the
\* second with raw text in Klasse and IGV that its row does not show.
C3_Witness ==
    /\ Len(rows) = 2
    /\ Len(report_row) = 2 * Len(fields)
    /\ records[1]["POS"] # records[2]["POS"]
    /\ records[2]["Klasse"] = <<"3">>
    /\ RowGet(rows[2], <<"Klasse">>) = <<"u">>
    /\ RowGet(rows[1], <<"Klasse">>) = <<>>

\* ----------------------------------------------------------------------- C4
\* Record i has been taken by the second loop of get_rows.
Projected(i) == i < proj_i

C5_NoTargetFailsFast ==
    (~excel /\ ~tsv /\ ~igv /\ pc # "idle") =>
        /\ pc \in {"write", "failed"}
        /\ pc = "failed" => error = "RuntimeError"
        /\ reads = 0
        /\ rows = <<>>
        /\ tsv_fd = "None" /\ tsv_out = <<>>
        /\ igv_fd = "None" /\ igv_out = <<>>
        /\ ~excel_saved

C5_Witness ==
    /\ ~excel /\ ~tsv /\ ~igv
    /\ records # <<>>
    /\ pc = "failed"
    /\ error = "RuntimeError"

\* ----------------------------------------------------------------------- C6
\* C6: when write has ended, normally or with an error, neither tsv_fd nor
\* igv_fd is open, and tsv_fd is not open once the tsv emitter is left.
C6_HandlesClosed ==
    /\ pc \in {"done", "failed"} => (tsv_fd # "open" /\ igv_fd # "open")
    /\ pc \in {"igv", "igv_open", "igv_lines"} => tsv_fd # "open"

\* ----------------------------------------------------------------------- C7
\* The tsv file holds the header of display names in field order and one
\* line per row of lines, in order, every line ended by a newline.
TsvIsHeaderAndLines ==
    LET out == Split(tsv_out, "\n")
    IN  /\ Len(out) = 1 + Len(lines) + 1
        /\ out[Len(out)] = <<>>
        /\ Len(Split(out[1], "\t")) = Len(fields)
        /\ out[1] = Join([k \in 1..Len(fields) |->
                            IF fields[k] = "inDB_noMutInd"
                            THEN rename_fields["inDB_noMutInd"]
                            ELSE <<fields[k]>>], TAB)
        /\ \A n \in 1..Len(lines) :
              LET cells == Split(out[n + 1], "\t")
              IN  /\ Len(cells) = Len(fields)
                  /\ \A k \in 1..Len(fields) :
                        IF fields[k] = "POS"
                        THEN ParseInt(cells[k]).val = lines[n][k][2]
                        ELSE cells[k] = lines[n][k][2]

\* C7: when a tsv target is given and get_rows has yielded a row for every
\* record, write leaves a tsv file with the header line and one line per
\* row, common or not: 1 + n lines for n rows.
C7_TsvOutput ==
    (tsv /\ pc \in {"done", "failed"} /\ Len(rows) = Len(records)
       /\ error \notin {"RuntimeError", "KeyError"}) =>
        TsvIsHeaderAndLines

\* The same for a record source that yields at least one record.
TsvOutputOfNonEmpty ==
    (tsv /\ pc \in {"igv", "igv_open", "igv_lines", "done", "failed"}
       /\ records # <<>> /\ error = "none") =>
        TsvIsHeaderAndLines

\* ----------------------------------------------------------------------- C8
\* The indices of lines whose row is not common, ascending.
RareIndices ==
    LET IsRare(n) == ~_filter_line(lines[n])
    IN  SelectSeq([n \in 1..Len(lines) |-> n], IsRare)

\* C8: when an igv target is given and write has ended normally, the igv
\* file holds one line per row of lines that _filter_line finds not common
\* and none for the others, in the order of lines, each line being CHR,
\* POS - 1, POS and Gene of its row.
C8_IgvOutput ==
    (igv /\ pc = "done") =>
        LET out == Split(igv_out, "\n")
        IN  /\ Len(out) = Len(RareIndices) + 1
            /\ out[Len(out)] = <<>>
            /\ \A n \in 1..Len(RareIndices) :
                  LET cells == Split(out[n], "\t")
                      row   == lines[RareIndices[n]]
                  IN  /\ Len(cells) = 4
                      /\ cells[1] = RowGet(row, <<"CHR">>)
                      /\ ParseInt(cells[2]).ok
                      /\ ParseInt(cells[2]).val = RowGet(row, <<"POS">>) - 1
                      /\ ParseInt(cells[3]).ok
                      /\ ParseInt(cells[3]).val = RowGet(row, <<"POS">>)
                      /\ cells[4] = RowGet(row, <<"Gene">>)

\* Of two rows the common one comes first in lines; the igv file holds the
\* line of the other one only.
C8_Witness ==
    /\ igv /\ pc = "done"
    /\ Len(lines) = 2
    /\ _filter_line(lines[1])
    /\ ~_filter_line(lines[2])
    /\ Len(Split(igv_out, "\n")) = 2

\* ----------------------------------------------------------------------- C9
\* Row a sorts before row b: by Gene, then Consequence, then ExAC_TOT.
Before(a, b) ==
    LET ga == RowGet(a, <<"Gene">>)
        gb == RowGet(b, <<"Gene">>)
        ca == RowGet(a, <<"Consequence">>)
        cb == RowGet(b, <<"Consequence">>)
        ea == RowGet(a, <<"ExAC_TOT">>)
        eb == RowGet(b, <<"ExAC_TOT">>)
    IN  \/ StrLess(ga, gb)
        \/ ga = gb /\ StrLess(ca, cb)
        \/ ga = gb /\ ca = cb /\ StrLess(ea, eb)

Sorted == pc \in {"filter", "excel", "tsv", "tsv_header", "tsv_lines", "igv",
                  "igv_open", "igv_lines", "done"}
            \/ (pc = "failed" /\ error = "IndexError")

\* C9: lines is a permutation of the rows get_rows yielded, ascending by
\* (Gene, Consequence, ExAC_TOT), rows with equal keys in source order.
C9_SortedStable ==
    Sorted =>
        \E perm \in [1..Len(rows) -> 1..Len(rows)] :
            /\ \A a, b \in 1..Len(rows) : a # b => perm[a] # perm[b]
            /\ Len(lines) = Len(rows)
            /\ \A k \in 1..Len(rows) : lines[k] = rows[perm[k]]
            /\ \A k \in 1..(Len(rows) - 1) :
                  /\ ~Before(lines[k + 1], lines[k])
                  /\ ~Before(lines[k], lines[k + 1]) => perm[k] < perm[k + 1]

\* Two rows of one gene came out of get_rows in descending order of
\* Consequence and were swapped.
C9_Witness ==
    /\ pc = "done"
    /\ Len(rows) = 2
    /\ lines = <<rows[2], rows[1]>>
    /\ RowGet(rows[1], <<"Gene">>) = RowGet(rows[2], <<"Gene">>)
    /\ RowGet(rows[1], <<"Consequence">>) # RowGet(rows[2], <<"Consequence">>)

\* ---------------------------------------------------------------------- C10
\* Record i holds an inDB_noTotal that int() accepts.
Countable(i) ==
    /\ "inDB_noTotal" \in DOMAIN records[i]
    /\ ParseInt(records[i]["inDB_noTotal"]).ok

\* The display name reads 'inDB_noMutInd (N)'.
IsLabelOf(name, n) ==
    /\ Len(name) >= 5
    /\ SubSeq(name, 1, 3) = <<"inDB_noMutInd", " ", "(">>
    /\ name[Len(name)] = ")"
    /\ ParseInt(SubSeq(name, 4, Len(name) - 1)).ok
    /\ ParseInt(SubSeq(name, 4, Len(name) - 1)).val = n

IsExpectedLabel(name) ==
    IF \E i \in 1..Len(records) : Countable(i)
    THEN LET first == CHOOSE i \in 1..Len(records) :
                         Countable(i) /\ \A j \in 1..(i - 1) : ~Countable(j)
         IN  IsLabelOf(name, ParseInt(records[first]["inDB_noTotal"]).val)
    ELSE name = <<"inDB_noMutInd">>

\* C10: no row is yielded before the first loop of get_rows has ended, and
\* from then on the display name of inDB_noMutInd, in the rename table and
\* in every row yielded, is 'inDB_noMutInd (N)' for the integer N of the
\* first record whose inDB_noTotal is an integer, or 'inDB_noMutInd' if
\* there is no such record.
C10_LabelFixed ==
    /\ pc \in {"write", "prepass"} => rows = <<>>
    /\ pc \notin {"write", "prepass", "idle"} /\ error # "RuntimeError" =>
          /\ IsExpectedLabel(rename_fields["inDB_noMutInd"])
          /\ \A i \in 1..Len(rows) : IsExpectedLabel(rows[i][FieldIndex("inDB_noMutInd")][1])

\* The first record has no integer, the second has: both rows carry the
\* count of the second record.
C10_Witness ==
    /\ Len(rows) = 2
    /\ ~Countable(1)
    /\ Countable(2)
    /\ IsLabelOf(rows[1][FieldIndex("inDB_noMutInd")][1], 7)
    /\ IsLabelOf(rows[2][FieldIndex("inDB_noMutInd")][1], 7)

====
